---- MODULE Spec2Model ----
(***************************************************************************)
(* The generation decode loop of QWenForCausalLMGenerationSession          *)
(* (examples/qwen/run.py): decode (eager) and steam_decode (streaming),    *)
(* the decoder setup they share, and the collaborators they drive (engine, *)
(* sampler, paged cache manager, beam reconstructor).                      *)
(***************************************************************************)
EXTENDS Integers, Sequences, FiniteSets, TLC

(***************************************************************************)
(* Bounds of the model                                                     *)
(***************************************************************************)
MaxBatch == 2        \* batch sizes 1..MaxBatch
MaxLen == 2          \* prompt lengths 1..MaxLen
MaxNew == 3          \* step budgets 0..MaxNew
MaxSlots == 2        \* batch_size * num_beams <= MaxSlots
TokensPerBlock == 2  \* tokens held by one cache block
EndId == 9           \* the tokenizer's end id
Tok == 1             \* a token that is not the end id
PadId == 7           \* a pad id that is not the end id
MaxLogit == 1        \* logits 0..MaxLogit per token

\* Optional values: None of Python is the empty tuple, a value v is <<v>>.
None == <<>>
Some(v) == <<v>>

Range(n) == 0 .. (n - 1)

Count(s, e) == Cardinality({i \in 1 .. Len(s) : s[i] = e})

(***************************************************************************)
(* State                                                                   *)
(***************************************************************************)
VARIABLES
  \* fields fixed by GenerationSession.setup
  batch_size, max_input_length, max_new_tokens, max_seq_length,
  buffer_allocated,
  \* fields fixed by the engine configuration
  paged_kv_cache, logits,
  \* the limit fixed by the constructor, and the arguments of the call a
  \* caller makes to generate, chat or chat_stream (None without such a call)
  global_max_output_length, request,
  \* fields written by __setup_decoder
  top_k, top_p, temperature, repetition_penalty, presence_penalty,
  dynamic_decoder, end_ids,
  output_ids, parent_ids, finished, cum_log_probs, log_probs,
  \* the paged cache manager: one record per registered sequence
  kv_cache_manager,
  \* the running decode / steam_decode call
  pc, mode, step, input_ids, input_lengths, scfg, sequence_lengths, resume,
  \* locals of the loop: the context being run, the block pointer table, the
  \* cache-indirection buffers (by index) of the current iteration
  context, kv_cache_block_pointers, this_src_cache_indirection,
  this_tgt_cache_indirection, next_src_cache_indirection,
  \* self.runtime.context_0 / context_1: what each context was last bound to
  contexts,
  \* whether the buffers of the last setup have not served a decode call yet
  fresh,
  \* what the caller has received, and the history of the call
  out, err, log, choices, entry, prev

setupVars == <<batch_size, max_input_length, max_new_tokens, max_seq_length,
               buffer_allocated>>
\* What no step of a session changes: the engine configuration, the
\* constructor's limit and the arguments the caller passed.
engineVars == <<paged_kv_cache, logits, global_max_output_length, request>>
policyVars == <<top_k, top_p, temperature, repetition_penalty,
                presence_penalty>>
bufferVars == <<end_ids, output_ids, parent_ids, finished, cum_log_probs,
                log_probs>>
decoderVars == <<policyVars, dynamic_decoder, bufferVars>>
argVars == <<mode, input_ids, input_lengths, scfg>>
callVars == <<pc, step, sequence_lengths, resume, out, err, log, choices>>
indirectionVars == <<this_src_cache_indirection, this_tgt_cache_indirection,
                     next_src_cache_indirection>>
loopVars == <<context, kv_cache_block_pointers, indirectionVars, contexts>>
vars == <<setupVars, engineVars, decoderVars, kv_cache_manager, argVars,
          callVars, loopVars, fresh, entry, prev>>

\* The session state a decode call may change: the snapshot taken at call entry.
Session ==
  [top_k |-> top_k, top_p |-> top_p, temperature |-> temperature,
   repetition_penalty |-> repetition_penalty,
   presence_penalty |-> presence_penalty, dynamic_decoder |-> dynamic_decoder,
   end_ids |-> end_ids, output_ids |-> output_ids, parent_ids |-> parent_ids,
   finished |-> finished, cum_log_probs |-> cum_log_probs,
   log_probs |-> log_probs, kv_cache_manager |-> kv_cache_manager]

(***************************************************************************)
(* Inputs                                                                  *)
(***************************************************************************)
\* Penalties, top_p and temperature in tenths: 0 is 0.0, 10 is 1.0 (the
\* repetition and temperature default).
Config(nb, pp, rp, e, p) ==
  [top_k |-> 1, top_p |-> 0, temperature |-> 10, repetition_penalty |-> rp,
   presence_penalty |-> pp, num_beams |-> nb, end_id |-> e, pad_id |-> p,
   output_cum_log_probs |-> FALSE, output_log_probs |-> FALSE]

\* The sampling configurations offered to a call: every pair of penalties,
\* beam search, and the configurations that miss the end id or the pad id.
SamplingConfigs ==
  { Config(1, pp, rp, Some(EndId), Some(EndId)) : pp \in {0, 3}, rp \in {0, 10, 12} }
  \cup { Config(2, 0, 10, Some(EndId), Some(EndId)),
         Config(1, 0, 10, None, Some(EndId)),
         Config(1, 0, 10, Some(EndId), None) }

\* Batches of prompt lengths, indexed from 0 like the tensors of the code. The
\* loop treats the rows alike, so the batches are taken longest prompt first.
LengthBatches ==
  { lens \in UNION { [Range(b) -> 1 .. MaxLen] : b \in 1 .. MaxBatch } :
      \A i \in DOMAIN lens : \A j \in DOMAIN lens : i < j => lens[i] >= lens[j] }

BatchOf(lens) == Cardinality(DOMAIN lens)

\* torch.max(input_lengths)
MaxOf(lens) == CHOOSE m \in {lens[b] : b \in DOMAIN lens} :
                 \A b \in DOMAIN lens : lens[b] <= m

\* A padded batch of prompts: row b holds input_lengths[b] prompt tokens, then
\* padding up to the longest prompt (prepare_for_chat pads with the end id).
PaddedInputIds(lens) ==
  [b \in DOMAIN lens |->
     [j \in Range(MaxOf(lens)) |-> IF j < lens[b] THEN Tok ELSE EndId]]

\* The prompts of a batch, one row of tokens per prompt, each prompt with
\* tokens of its own.
PromptTokens(lens) ==
  [b \in DOMAIN lens |-> [j \in Range(lens[b]) |-> Tok + b]]

LensOf(prompts) == [b \in DOMAIN prompts |-> Cardinality(DOMAIN prompts[b])]

\* torch.nested.to_padded_tensor(nested_tensor(rows), pad), and the loop of
\* torch.cat([row, pad]) of prepare_for_chat: every row filled on the right
\* with pad up to the longest row.
PadRows(prompts, pad) ==
  [b \in DOMAIN prompts |->
     [j \in Range(MaxOf(LensOf(prompts))) |->
        IF j < LensOf(prompts)[b] THEN prompts[b][j] ELSE pad]]

\* The position of the first token of row b in the concatenation of the rows.
RECURSIVE Offset(_, _)
Offset(lens, b) == IF b = 0 THEN 0 ELSE Offset(lens, b - 1) + lens[b - 1]

\* np.concatenate(input_tokens), unsqueezed: one row holding all prompts.
ConcatRows(prompts) ==
  LET lens == LensOf(prompts)
      total == Offset(lens, BatchOf(lens))
  IN [r \in Range(1) |->
        [p \in Range(total) |->
           LET b == CHOOSE x \in DOMAIN lens :
                      Offset(lens, x) <= p /\ p < Offset(lens, x) + lens[x]
           IN prompts[b][p - Offset(lens, b)]]]

\* prepare_for_chat: pad_id = tokenizer.im_end_id.
PrepareForChat(prompts) == PadRows(prompts, EndId)

\* generation_config.json as get_model reads it.
GenConfigs ==
  [chat_format : {"raw", "chatml"}, eos_token_id : {EndId},
   pad_token_id : {EndId, PadId}]

\* get_model: the end and pad ids by chat format, and the SamplingConfig
\* built from them.
GetModel(gen) ==
  LET eos == IF gen.chat_format = "raw" THEN gen.eos_token_id ELSE EndId
      pad == IF gen.chat_format = "raw" THEN gen.pad_token_id ELSE EndId
  IN [eos_token_id |-> eos, pad_token_id |-> pad,
      sampling_config |-> Config(1, 0, 10, Some(eos), Some(pad))]

\* generate (command line) with an input file: the rows concatenated when the
\* engine removes input padding, padded with eos_token_id otherwise.
FileInputIds(prompts, eos, remove_input_padding) ==
  IF remove_input_padding THEN ConcatRows(prompts) ELSE PadRows(prompts, eos)

\* What the sampler may select for the slots of one step: a token and, for beam
\* search, the beam each slot extends.
SamplerChoices(bs, nb) ==
  [Range(bs) -> [Range(nb) -> [tok : {Tok, EndId}, parent : Range(nb)]]]

(***************************************************************************)
(* The paged cache manager                                                 *)
(***************************************************************************)
\* add_sequence(sequence, context_len): reserves blocks for the prompt.
KvAddSequence(kv, bi, n) == Append(kv, [batch_idx |-> bi, tokens |-> n])

RECURSIVE KvAddBatch(_, _, _, _)
KvAddBatch(kv, bi, bs, n) ==
  IF bi >= bs THEN kv ELSE KvAddBatch(KvAddSequence(kv, bi, n), bi + 1, bs, n)

\* step(finished): one more token for each sequence whose flag is false, all
\* blocks of the others released and the sequence dropped.
RECURSIVE KvStep(_, _)
KvStep(kv, done) ==
  IF Len(kv) = 0 THEN <<>>
  ELSE LET s == Head(kv)
           rest == KvStep(Tail(kv), done)
       IN IF done[s.batch_idx] THEN rest
          ELSE <<[s EXCEPT !.tokens = s.tokens + 1]>> \o rest

\* Blocks held by a sequence of n tokens.
BlocksFor(n) == (n + TokensPerBlock - 1) \div TokensPerBlock

\* get_pointer_arrays(): the block table, blocks per registered sequence.
KvPointerArrays(kv) == [i \in 1 .. Len(kv) |-> BlocksFor(kv[i].tokens)]

KvBlocks(kv) == Cardinality({i \in 1 .. Len(kv) : BlocksFor(kv[i].tokens) > 0})

(***************************************************************************)
(* The sampler (dynamic_decoder.forward) and the beam reconstructor        *)
(***************************************************************************)
\* One sampler step at write position pos: an unfinished slot takes the chosen
\* token and parent and grows by one; a finished slot is ignored. A slot
\* finishes on the end id or when it exceeds its length limit.
SamplerOutputIds(oids, fin, ch, pos) ==
  [oids EXCEPT ![pos] =
     [b \in DOMAIN fin |-> [k \in DOMAIN fin[b] |->
        IF fin[b][k] THEN oids[pos][b][k] ELSE ch[b][k].tok]]]

SamplerParentIds(pids, fin, ch, pos) ==
  [pids EXCEPT ![pos] =
     [b \in DOMAIN fin |-> [k \in DOMAIN fin[b] |->
        IF fin[b][k] THEN pids[pos][b][k] ELSE ch[b][k].parent]]]

SamplerLengths(lens, fin) ==
  [b \in DOMAIN fin |-> [k \in DOMAIN fin[b] |->
     IF fin[b][k] THEN lens[b][k] ELSE lens[b][k] + 1]]

SamplerFinished(fin, ch, lens, limit, endv) ==
  [b \in DOMAIN fin |-> [k \in DOMAIN fin[b] |->
     \/ fin[b][k]
     \/ ch[b][k].tok = endv
     \/ lens[b][k] + 1 > limit]]

\* The tokens the engine scores, and the logits of one slot at one step.
Vocab == {Tok, EndId}
Logits == [Vocab -> 0 .. MaxLogit]

\* The number of tokens ranked before v: higher logit first, lower id first
\* among equals.
Rank(lg, v) ==
  Cardinality({w \in Vocab : lg[w] > lg[v] \/ (lg[w] = lg[v] /\ w < v)})

ArgMax(lg) == CHOOSE v \in Vocab : Rank(lg, v) = 0

\* The k best tokens, all of them for k = 0.
TopK(lg, k) == IF k = 0 THEN Vocab ELSE {v \in Vocab : Rank(lg, v) < k}

\* What the random draw of one slot decides: how many of the ranked candidates
\* the top_p mass covers (which depends on top_p and on the temperature) and
\* the token drawn.
Rands == [keep : 1 .. Cardinality(Vocab), pick : Vocab]

\* The token selected for a slot without beam search: greedy for k = 0 and
\* p = 0; otherwise drawn among the k best tokens, cut by top_p to the best
\* `keep` of them. The temperature rescales the logits without reordering
\* them: it moves the top_p cut and the odds of the draw, both free here.
SamplerSelect(lg, k, p, t, rnd) ==
  LET cand == TopK(lg, k)
      nucleus == IF p = 0 THEN cand
                 ELSE {v \in cand : Rank(lg, v) < rnd.keep}
  IN IF k = 0 /\ p = 0 THEN ArgMax(lg)
     ELSE IF rnd.pick \in nucleus THEN rnd.pick
     ELSE ArgMax(lg)

AllFinished(fin) == \A b \in DOMAIN fin : \A k \in DOMAIN fin[b] : fin[b][k]

\* The beam holding, at position target, the hypothesis that is in beam cur at
\* position t: the parent links walked backward.
RECURSIVE BeamAt(_, _, _, _, _)
BeamAt(pids, b, t, cur, target) ==
  IF t <= target THEN cur
  ELSE BeamAt(pids, b, t - 1, pids[t][b][cur], target)

\* gather_tree: for each (batch, beam) the tokens of its hypothesis up to its
\* recorded length, the end id after it.
GatherTree(lens, oids, pids, endv, bs, nb, maxseq) ==
  [b \in Range(bs) |-> [k \in Range(nb) |-> [t \in Range(maxseq) |->
     IF t < lens[b][k]
     THEN oids[t][b][BeamAt(pids, b, lens[b][k] - 1, k, t)]
     ELSE endv]]]

(***************************************************************************)
(* Construction and setup                                                  *)
(***************************************************************************)
\* The session as constructed: no shape is fixed, no buffer allocated.
InitSession ==
  /\ batch_size = None /\ max_input_length = None
  /\ max_new_tokens = None /\ max_seq_length = None
  /\ buffer_allocated = FALSE
  /\ paged_kv_cache \in BOOLEAN
  /\ logits \in BOOLEAN
  /\ top_k = None /\ top_p = None /\ temperature = None
  /\ repetition_penalty = None /\ presence_penalty = None
  /\ dynamic_decoder = None /\ end_ids = None
  /\ output_ids = None /\ parent_ids = None /\ finished = None
  /\ cum_log_probs = None /\ log_probs = None
  /\ kv_cache_manager = <<>>
  /\ pc = "idle" /\ mode = "none" /\ step = 0
  /\ input_ids = None /\ input_lengths = None /\ scfg = None
  /\ sequence_lengths = None /\ resume = "none"
  /\ out = <<>> /\ err = "" /\ log = <<>> /\ choices = <<>>
  /\ context = None /\ kv_cache_block_pointers = <<>>
  /\ this_src_cache_indirection = None
  /\ this_tgt_cache_indirection = None
  /\ next_src_cache_indirection = None
  /\ contexts = [c \in {0, 1} |-> None]
  /\ fresh = FALSE
  /\ entry = None /\ prev = None

\* A session built as get_model builds it, driven through setup and decode
\* directly: global_max_output_length = max_input_len + max_new_tokens of
\* the default configuration.
Init ==
  /\ InitSession
  /\ global_max_output_length = MaxLen + MaxNew
  /\ request = None

\* setup(batch_size, max_input_length, max_new_tokens): fixes the shapes and
\* allocates the buffers and a fresh cache manager.
Setup(bs, mil, mnt) ==
  /\ pc = "idle"
  /\ batch_size' = Some(bs)
  /\ max_input_length' = Some(mil)
  /\ max_new_tokens' = Some(mnt)
  /\ max_seq_length' = Some(mil + mnt)
  /\ buffer_allocated' = TRUE
  /\ kv_cache_manager' = <<>>
  /\ fresh' = TRUE
  /\ UNCHANGED <<engineVars, decoderVars, argVars, callVars, loopVars, entry,
                 prev>>

(***************************************************************************)
(* __setup_decoder                                                         *)
(***************************************************************************)
\* The assertion on the two penalties (presence 0.0 or repetition 0.0).
PenaltiesAccepted(c) == c.presence_penalty = 0 \/ c.repetition_penalty = 0

\* self.repetition_penalty: a tensor, None for the default 1.0.
RepetitionPenaltyField(c, bs) ==
  IF c.repetition_penalty = 10 THEN None
  ELSE Some([b \in Range(bs) |-> c.repetition_penalty])

\* self.presence_penalty: a tensor, None for the default 0.0.
PresencePenaltyField(c, bs) ==
  IF c.presence_penalty = 0 THEN None
  ELSE Some([b \in Range(bs) |-> c.presence_penalty])

\* self.output_ids: the padded prompts, then zeros up to max_seq_length.
InitialOutputIds(ids, bs, nb, mil, maxseq) ==
  [t \in Range(maxseq) |-> [b \in Range(bs) |-> [k \in Range(nb) |->
     IF t < mil THEN ids[b][t] ELSE 0]]]

\* self.cum_log_probs allocated on request only.
CumLogProbsOnRequest(c, bs) ==
  IF c.output_cum_log_probs
  THEN Some([b \in Range(bs) |-> [k \in Range(c.num_beams) |->
               IF k = 0 THEN "0.0" ELSE "-1e20"]])
  ELSE None

\* self.cum_log_probs: allocated for beam search or on request (0.0 for the
\* first beam, -1e20 for the others), None otherwise.
CumLogProbs(c, bs) ==
  IF c.num_beams > 1 \/ c.output_cum_log_probs
  THEN Some([b \in Range(bs) |-> [k \in Range(c.num_beams) |->
               IF k = 0 THEN "0.0" ELSE "-1e20"]])
  ELSE None

\* self.log_probs: zeros per (step, batch, beam) on request, None otherwise.
LogProbs(c, bs, mnt) ==
  IF c.output_log_probs
  THEN Some([t \in Range(mnt) |-> [b \in Range(bs) |->
               [k \in Range(c.num_beams) |-> "0.0"]]])
  ELSE None

\* The finished flags allocated set instead of cleared.
InitialFinishedSet(bs, nb) == [b \in Range(bs) |-> [k \in Range(nb) |-> TRUE]]

\* self.finished = torch.zeros((batch_size, scfg.num_beams), dtype=torch.bool)
InitialFinished(bs, nb) == [b \in Range(bs) |-> [k \in Range(nb) |-> FALSE]]

\* self.top_k left without a restriction (0) whatever the configuration.
TopKFieldUnrestricted(c, bs) == Some([b \in Range(bs) |-> 0])

\* self.top_k = torch.full([batch_size], scfg.top_k)
TopKField(c, bs) == Some([b \in Range(bs) |-> c.top_k])

\* The session after the policy fields are written (the penalty assertion
\* follows them).
DecoderPolicySet(c, bs) ==
  [Session EXCEPT !.top_k = TopKField(c, bs),
                  !.top_p = Some([b \in Range(bs) |-> c.top_p]),
                  !.temperature = Some([b \in Range(bs) |-> c.temperature]),
                  !.repetition_penalty = RepetitionPenaltyField(c, bs),
                  !.presence_penalty = PresencePenaltyField(c, bs)]

\* The session after dynamic_decoder.setup (the end id and pad id assertions
\* follow it).
DecoderSamplerSet(c, bs) ==
  [DecoderPolicySet(c, bs) EXCEPT
     !.dynamic_decoder =
        Some([batch_size |-> bs, num_beams |-> c.num_beams,
              repetition_penalty |-> RepetitionPenaltyField(c, bs),
              presence_penalty |-> PresencePenaltyField(c, bs)])]

\* The session after the buffers are allocated.
DecoderBuffersSet(c, ids, bs, mil) ==
  [DecoderSamplerSet(c, bs) EXCEPT
     !.end_ids = Some(c.end_id[1]),
     !.output_ids = InitialOutputIds(ids, bs, c.num_beams, mil, max_seq_length[1]),
     !.parent_ids = [t \in Range(max_seq_length[1]) |->
                       [b \in Range(bs) |-> [k \in Range(c.num_beams) |-> 0]]],
     !.cum_log_probs = CumLogProbs(c, bs),
     !.log_probs = LogProbs(c, bs, max_new_tokens[1]),
     !.finished = InitialFinished(bs, c.num_beams)]

\* padded_input_ids: when dim 0 of input_ids is not the batch size the single
\* row is split by input_lengths and padded with scfg.pad_id, otherwise
\* input_ids is taken as it is.
PaddedIds(c, ids, lens) ==
  IF BatchOf(ids) # BatchOf(lens)
  THEN [b \in DOMAIN lens |->
          [j \in Range(MaxOf(lens)) |->
             IF j < lens[b] THEN ids[0][Offset(lens, b) + j] ELSE c.pad_id[1]]]
  ELSE ids

\* __setup_decoder: the error it raises ("" for none) and the session it leaves.
SetupDecoder(c, ids, lens) ==
  LET bs == BatchOf(lens)
      mil == MaxOf(lens)
  IN IF ~PenaltiesAccepted(c)
     THEN [err |-> "AssertionError: penalties", s |-> DecoderPolicySet(c, bs)]
     ELSE IF c.end_id = None
     THEN [err |-> "AssertionError: end_id", s |-> DecoderSamplerSet(c, bs)]
     ELSE IF c.pad_id = None
     THEN [err |-> "AssertionError: pad_id", s |-> DecoderSamplerSet(c, bs)]
     ELSE [err |-> "", s |-> DecoderBuffersSet(c, PaddedIds(c, ids, lens), bs, mil)]

(***************************************************************************)
(* decode and steam_decode                                                 *)
(***************************************************************************)
\* ShapeCheck without the comparison of the batch sizes.
ShapeCheckNoBatch(bs, mil) ==
  IF batch_size = None THEN "AttributeError"
  ELSE IF mil # max_input_length[1] THEN "AssertionError: input length"
  ELSE ""

\* The two assertions that open decode and steam_decode: the error raised, ""
\* for none. Reading a shape that setup never assigned is an AttributeError.
ShapeCheck(bs, mil) ==
  IF batch_size = None THEN "AttributeError"
  ELSE IF bs # batch_size[1] THEN "AssertionError: batch size"
  ELSE IF mil # max_input_length[1] THEN "AssertionError: input length"
  ELSE ""

\* The check that follows __setup_decoder.
BufferCheck == IF ~buffer_allocated THEN "RuntimeError: call setup first" ELSE ""

SetSession(s) ==
  /\ top_k' = s.top_k
  /\ top_p' = s.top_p
  /\ temperature' = s.temperature
  /\ repetition_penalty' = s.repetition_penalty
  /\ presence_penalty' = s.presence_penalty
  /\ dynamic_decoder' = s.dynamic_decoder
  /\ end_ids' = s.end_ids
  /\ output_ids' = s.output_ids
  /\ parent_ids' = s.parent_ids
  /\ finished' = s.finished
  /\ cum_log_probs' = s.cum_log_probs
  /\ log_probs' = s.log_probs
  /\ kv_cache_manager' = s.kv_cache_manager

Raise(e) ==
  /\ pc' = "error"
  /\ err' = e

\* The sequences added whether paging is enabled or not.
AddSequencesUnguarded(kv, bs, n) == KvAddBatch(kv, 0, bs, n)

\* The cache manager after the sequences of the batch are added (paging only).
AddSequences(kv, bs, n) ==
  IF paged_kv_cache THEN KvAddBatch(kv, 0, bs, n) ELSE kv

\* The body of decode / steam_decode from its first line to the head of the
\* loop: the shape assertions, __setup_decoder, the buffer check, the locals
\* and the sequences added to the cache manager.
Enter(lens, ids, c) ==
  LET bs == BatchOf(lens)
      mil == MaxOf(lens)
      r == SetupDecoder(c, ids, lens)
  IN /\ IF ShapeCheck(bs, mil) # ""
        THEN /\ Raise(ShapeCheck(bs, mil))
             /\ UNCHANGED <<decoderVars, kv_cache_manager, sequence_lengths, log,
                            loopVars, fresh>>
        ELSE IF r.err # ""
        THEN /\ Raise(r.err)
             /\ SetSession(r.s)
             /\ UNCHANGED <<sequence_lengths, log, loopVars, fresh>>
        ELSE IF BufferCheck # ""
        THEN /\ Raise(BufferCheck)
             /\ SetSession(r.s)
             /\ UNCHANGED <<sequence_lengths, log, loopVars, fresh>>
        ELSE /\ SetSession([r.s EXCEPT !.kv_cache_manager =
                              AddSequences(kv_cache_manager, bs, mil)])
             /\ kv_cache_block_pointers' = <<>>
             /\ context' = None
             /\ this_src_cache_indirection' = None
             /\ this_tgt_cache_indirection' = None
             /\ next_src_cache_indirection' = None
             /\ contexts' = contexts
             /\ fresh' = FALSE
             /\ sequence_lengths' =
                  [b \in Range(bs) |-> [k \in Range(c.num_beams) |-> mil]]
             /\ log' = IF paged_kv_cache
                       THEN [i \in 1 .. bs |-> "add_sequence"] ELSE <<>>
             /\ pc' = "top"
             /\ err' = ""
     /\ step' = 0
     /\ choices' = <<>>

\* decode(input_ids, input_lengths, sampling_config): the call runs at once.
Decode(lens, c) ==
  /\ pc = "idle"
  /\ mode' = "eager"
  /\ input_lengths' = lens
  /\ input_ids' = PaddedInputIds(lens)
  /\ scfg' = c
  /\ entry' = Session
  /\ Enter(lens, PaddedInputIds(lens), c)
  /\ out' = <<>>
  /\ UNCHANGED <<setupVars, engineVars, resume, prev>>

\* steam_decode(input_ids, input_lengths, sampling_config): a generator, whose
\* body does not start before the first next().
SteamDecode(lens, c) ==
  /\ pc = "idle"
  /\ mode' = "stream"
  /\ input_lengths' = lens
  /\ input_ids' = PaddedInputIds(lens)
  /\ scfg' = c
  /\ entry' = Session
  /\ pc' = "created"
  /\ resume' = "entry"
  /\ out' = <<>>
  /\ UNCHANGED <<setupVars, engineVars, decoderVars, kv_cache_manager, step,
                 sequence_lengths, err, log, choices, loopVars, fresh, prev>>

\* Locals of the running call (batch_size = input_lengths.size(0), which
\* sizes sequence_lengths).
LocalBatch == BatchOf(sequence_lengths)
LocalMaxInputLength == MaxOf(input_lengths)

\* _tile_beam_width(input_lengths, num_beams)
TileBeamWidth(lens, nb) ==
  [i \in Range(BatchOf(lens) * nb) |-> lens[i \div nb]]

\* The pair reconstructed up to the prompt length instead of the recorded
\* length of each sequence.
PairUpToPrompt(lens, oids, pids, n) ==
  [ids |-> GatherTree([b \in DOMAIN lens |-> [k \in DOMAIN lens[b] |->
                         MaxOf(input_lengths)]],
                      oids, pids, end_ids[1], BatchOf(sequence_lengths),
                      scfg.num_beams, max_seq_length[1]),
   n |-> n]

\* The (final_output_ids, step count) pair handed to the caller.
Pair(lens, oids, pids, n) ==
  [ids |-> GatherTree(lens, oids, pids, end_ids[1], LocalBatch, scfg.num_beams,
                      max_seq_length[1]),
   n |-> n]

\* The done flags of kv_cache_manager.step([flag] * batch_size * num_beams).
DoneFlags(flag) == [i \in Range(LocalBatch * scfg.num_beams) |-> flag]

\* "Free all blocks in all sequences" (paging only).
ReleaseAll(kv) == IF paged_kv_cache THEN KvStep(kv, DoneFlags(TRUE)) ELSE kv
ReleaseLog == IF paged_kv_cache THEN <<"kv_step_true">> ELSE <<>>

\* The advance made at the last step too.
AdvancesAtLastStep(s) == paged_kv_cache

\* "Iterate to the next step in KV cache manager" (paging, not the last step).
Advances(s) == paged_kv_cache /\ s < max_new_tokens[1] - 1
\* The advance passing the finished flags of the slots as done flags.
AdvanceUnfinished(kv, s) ==
  IF Advances(s)
  THEN KvStep(kv, [i \in Range(LocalBatch * scfg.num_beams) |->
                     finished[i \div scfg.num_beams][i % scfg.num_beams]])
  ELSE kv

AdvanceAll(kv, s) == IF Advances(s) THEN KvStep(kv, DoneFlags(FALSE)) ELSE kv
AdvanceLog(s) == IF Advances(s) THEN <<"kv_step_false">> ELSE <<>>

\* The loop running one iteration too many.
LoopContinuesOffByOne(s) == s <= max_new_tokens[1]

\* for step in range(0, self.max_new_tokens)
LoopContinues(s) == s < max_new_tokens[1]

\* The source buffer of the current step bound as the source of the next.
NextSrcIsThisSrc(s) == IF s % 2 = 1 THEN 1 ELSE 0

\* if step % 2: context = self.runtime.context_0 ... else: context_1 ...
\* The execution context and the cache-indirection buffers of step s, by index.
Context(s) == IF s % 2 = 1 THEN 0 ELSE 1
ThisSrcCacheIndirection(s) == IF s % 2 = 1 THEN 1 ELSE 0
ThisTgtCacheIndirection(s) == IF s % 2 = 1 THEN 0 ELSE 1
NextSrcCacheIndirection(s) == IF s % 2 = 1 THEN 0 ELSE 1

\* The inputs of the next step bound to the context being run.
NextContextIsCurrent(s) == IF s % 2 = 1 THEN 0 ELSE 1

\* next_context = self.runtime.context_1 if step % 2 else self.runtime.context_0
NextContext(s) == IF s % 2 = 1 THEN 1 ELSE 0

\* kv_cache_block_pointers at the head of an iteration: fetched from the cache
\* manager with paging, left as it is without.
FetchPointers(kv, old) == IF paged_kv_cache THEN KvPointerArrays(kv) ELSE old

\* The context-phase inputs rebuilt at every step.
BuildsContextInputsAlways(s) == s >= 0

\* if step == 0: the context-phase inputs are built and bound.
BuildsContextInputs(s) == s = 0

\* if not step == self.max_new_tokens - 1: the inputs of the next step are
\* built and bound.
BuildsNextInputs(s) == s # max_new_tokens[1] - 1

\* What _set_shape / _set_buffer leave in a context: the step whose inputs it
\* holds, with the block pointer table and the source cache-indirection buffer
\* they were built from.
Bound(s, ptrs, ci) ==
  Some([step |-> s, kv_cache_block_pointers |-> ptrs, cache_indirection |-> ci])

\* The head of one iteration: the pointer table, the choice of the context and
\* of the cache-indirection buffers, and at step 0 the context inputs.
IterationHead ==
  /\ kv_cache_block_pointers' =
        FetchPointers(kv_cache_manager, kv_cache_block_pointers)
  /\ context' = Some(Context(step))
  /\ this_src_cache_indirection' = Some(ThisSrcCacheIndirection(step))
  /\ this_tgt_cache_indirection' = Some(ThisTgtCacheIndirection(step))
  /\ next_src_cache_indirection' = Some(NextSrcCacheIndirection(step))
  /\ contexts' =
        IF BuildsContextInputs(step)
        THEN [contexts EXCEPT ![Context(step)] =
                Bound(step,
                      FetchPointers(kv_cache_manager, kv_cache_block_pointers),
                      ThisSrcCacheIndirection(step))]
        ELSE contexts
  /\ fresh' = fresh

\* Iterate with the result of the engine invocation ignored.
IterateSwallowsFailure(ok) ==
  /\ pc = "top"
  /\ LoopContinues(step)
  /\ IterationHead
  /\ log' = log \o (IF paged_kv_cache THEN <<"get_pointer_arrays">> ELSE <<>>)
                \o (IF BuildsContextInputs(step)
                    THEN <<"context_inputs">> ELSE <<>>)
                \o <<IF ok THEN "run" ELSE "run_failed">>
  /\ pc' = "post"
  /\ UNCHANGED <<setupVars, engineVars, decoderVars, kv_cache_manager, argVars,
                 step, sequence_lengths, resume, out, err, choices, entry, prev>>

\* The batch released when the engine invocation fails.
OnEngineFailureReleased(kv) == ReleaseAll(kv)

\* if not ok: raise RuntimeError(...): the cache manager is left as it is.
OnEngineFailure(kv) == kv

\* One iteration up to the engine invocation: the block pointer table is
\* fetched, at step 0 the context inputs are built and bound, and the engine
\* runs (ok = self.runtime._run(context, stream)).
Iterate(ok) ==
  /\ pc = "top"
  /\ LoopContinues(step)
  /\ IterationHead
  /\ log' = log \o (IF paged_kv_cache THEN <<"get_pointer_arrays">> ELSE <<>>)
                \o (IF BuildsContextInputs(step)
                    THEN <<"context_inputs">> ELSE <<>>)
                \o <<IF ok THEN "run" ELSE "run_failed">>
  /\ IF ok THEN pc' = "post" /\ err' = err
     ELSE Raise("RuntimeError: Executing TRT engine failed!")
  /\ kv_cache_manager' =
        IF ok THEN kv_cache_manager ELSE OnEngineFailure(kv_cache_manager)
  /\ UNCHANGED <<setupVars, engineVars, decoderVars, argVars, step,
                 sequence_lengths, resume, out, choices, entry, prev>>

\* The stop branch without its release.
StopReleaseSkipped(kv) == kv

\* What the stop branch of the loop does to the cache manager.
StopRelease(kv) == ReleaseAll(kv)
StopReleaseLog == ReleaseLog

\* The stop branch reporting the loop index.
StopCountIsStep(s) == s

\* The step count reported with the result of the stop branch.
StopCount(s) == s + 1

\* The yield of an iteration reporting the loop index.
YieldCountIsStep(s) == s

\* The step count yielded by steam_decode at the end of an iteration.
YieldCount(s) == s + 1

\* The write position one past the step's own.
WritePositionOffByOne(s) == s + LocalMaxInputLength + 1

\* decode_step = step + max_input_length
WritePosition(s) == s + LocalMaxInputLength

\* The per-sequence state tiled at every step of a beam search.
TilesAtEveryStep(s, nb) == nb > 1

\* if step == 0 and scfg.num_beams > 1: the per-sequence state is tiled.
Tiles(s, nb) == s = 0 /\ nb > 1

\* The rest of one iteration after a successful engine invocation: beam tiling,
\* the inputs of the next step, the sampler, and then either the stop branch
\* or the advance of the cache manager (and, streaming, the yield).
StepPost(ch) ==
  /\ pc = "post"
  /\ choices' = Append(choices, ch)
  /\   LET nb == scfg.num_beams
           tile == Tiles(step, nb)
           pos == WritePosition(step)
           oids == IF logits
                   THEN SamplerOutputIds(output_ids, finished, ch, pos)
                   ELSE output_ids
           pids == IF logits
                   THEN SamplerParentIds(parent_ids, finished, ch, pos)
                   ELSE parent_ids
           lens == IF logits
                   THEN SamplerLengths(sequence_lengths, finished)
                   ELSE sequence_lengths
           fin == IF logits
                  THEN SamplerFinished(finished, ch, sequence_lengths,
                                       max_seq_length[1], end_ids[1])
                  ELSE finished
           should_stop == logits /\ AllFinished(fin)
           pre == log \o (IF tile THEN <<"tile">> ELSE <<>>)
                      \o (IF BuildsNextInputs(step)
                          THEN <<"next_inputs">> ELSE <<>>)
                      \o (IF logits THEN <<"sampler">> ELSE <<>>)
       IN /\ input_lengths' = IF tile THEN TileBeamWidth(input_lengths, nb)
                              ELSE input_lengths
          /\ contexts' =
                IF BuildsNextInputs(step)
                THEN [contexts EXCEPT ![NextContext(step)] =
                        Bound(step + 1, kv_cache_block_pointers,
                              next_src_cache_indirection[1])]
                ELSE contexts
          /\ output_ids' = oids
          /\ parent_ids' = pids
          /\ sequence_lengths' = lens
          /\ finished' = fin
          /\ IF should_stop
             THEN /\ kv_cache_manager' = StopRelease(kv_cache_manager)
                  /\ log' = pre \o StopReleaseLog \o <<"gather_tree">>
                                \o <<IF mode = "eager" THEN "return" ELSE "yield">>
                  /\ out' = Append(out, Pair(lens, oids, pids, StopCount(step)))
                  /\ pc' = IF mode = "eager" THEN "done" ELSE "yielded"
                  /\ resume' = IF mode = "eager" THEN resume ELSE "after"
                  /\ step' = step
             ELSE /\ kv_cache_manager' = AdvanceAll(kv_cache_manager, step)
                  /\ IF mode = "eager"
                     THEN /\ log' = pre \o AdvanceLog(step)
                          /\ out' = out
                          /\ pc' = "top"
                          /\ resume' = resume
                          /\ step' = step + 1
                     ELSE /\ log' = pre \o AdvanceLog(step)
                                        \o <<"gather_tree", "yield">>
                          /\ out' = Append(out, Pair(lens, oids, pids, YieldCount(step)))
                          /\ pc' = "yielded"
                          /\ resume' = "top"
                          /\ step' = step
  /\ UNCHANGED <<setupVars, engineVars, policyVars, dynamic_decoder, end_ids,
                 cum_log_probs, log_probs, mode, input_ids, scfg, err, context,
                 kv_cache_block_pointers, indirectionVars, fresh, entry, prev>>

\* The consumer asks the generator for its next pair: the body starts, or goes
\* on after the yield (with the next iteration, or after a break); a generator
\* whose body has returned answers every further next() with StopIteration.
Resume ==
  /\ mode = "stream"
  /\ \/ /\ pc = "created"
        /\ Enter(input_lengths, input_ids, scfg)
        /\ UNCHANGED <<resume>>
     \/ /\ pc = "yielded"
        /\ pc' = resume
        /\ step' = IF resume = "top" THEN step + 1 ELSE step
        /\ UNCHANGED <<decoderVars, kv_cache_manager, sequence_lengths, resume,
                       err, log, choices, loopVars, fresh>>
     \/ /\ pc = "done"
        /\ err' = "StopIteration"
        /\ UNCHANGED <<pc, step, decoderVars, kv_cache_manager, sequence_lengths,
                       resume, log, choices, loopVars, fresh>>
  /\ UNCHANGED <<setupVars, engineVars, argVars, out, entry, prev>>

\* The code after the loop: the release and, in decode, the final result.
AfterLoop ==
  /\ \/ pc = "after"
     \/ pc = "top" /\ ~LoopContinues(step)
  /\ kv_cache_manager' = ReleaseAll(kv_cache_manager)
  /\ IF mode = "eager"
     THEN /\ log' = log \o ReleaseLog \o <<"gather_tree", "return">>
          /\ out' = Append(out, Pair(sequence_lengths, output_ids, parent_ids,
                                     max_new_tokens[1]))
     ELSE /\ log' = log \o ReleaseLog
          /\ out' = out
  /\ pc' = "done"
  /\ UNCHANGED <<setupVars, engineVars, policyVars, dynamic_decoder, bufferVars,
                 argVars, step, sequence_lengths, resume, err, choices, loopVars,
                 fresh, entry, prev>>

(***************************************************************************)
(* Specification: one session, set up and then driven through one call     *)
(***************************************************************************)
\* The selections open to the sampler in the current state.
\* The sampler selects for the unfinished slots only (and not at all without
\* logits): the selection of an ignored slot is fixed.
StepChoices ==
  IF pc = "post"
  THEN { ch \in SamplerChoices(LocalBatch, scfg.num_beams) :
           \A b \in DOMAIN ch : \A k \in DOMAIN ch[b] :
              (~logits \/ finished[b][k]) => ch[b][k] = [tok |-> Tok, parent |-> 0] }
  ELSE {}

Requests ==
  { r \in LengthBatches \X SamplingConfigs :
      BatchOf(r[1]) * r[2].num_beams <= MaxSlots }

Next ==
  \/ \E bs \in 1 .. MaxBatch, mil \in 1 .. MaxLen, mnt \in 0 .. MaxNew :
       Setup(bs, mil, mnt)
  \/ \E r \in Requests : Decode(r[1], r[2])
  \/ \E r \in Requests : SteamDecode(r[1], r[2])
  \/ Resume
  \/ \E ok \in BOOLEAN : Iterate(ok)
  \/ \E ch \in StepChoices : StepPost(ch)
  \/ AfterLoop

Spec == Init /\ [][Next]_vars

(***************************************************************************)
(* The callers: generate, chat, chat_stream                                *)
(***************************************************************************)
\* outputs = output_ids[:, 0, :max_input_length + end_step] of generate.
GenerateOutputs(pair, mil) ==
  [b \in DOMAIN pair.ids |-> [t \in Range(mil + pair.n) |-> pair.ids[b][0][t]]]

\* The caller is back from a finished call and keeps what it was given.
Return ==
  /\ pc = "done"
  /\ pc' = "idle"
  /\ prev' = Some([mode |-> mode, input_ids |-> input_ids, scfg |-> scfg,
                   setup |-> <<batch_size, max_input_length, max_new_tokens>>,
                   out |-> out, choices |-> choices])
  /\ UNCHANGED <<setupVars, engineVars, decoderVars, kv_cache_manager, argVars,
                 step, sequence_lengths, resume, out, err, log, choices, loopVars,
                 fresh, entry>>

(***************************************************************************)
(* Specification: the same request served by decode and then, under the    *)
(* same setup and the same engine and sampler behaviour, by steam_decode    *)
(***************************************************************************)
SameSetup(bs, mil, mnt) ==
  prev # None => prev[1].setup = <<Some(bs), Some(mil), Some(mnt)>>

SameRequest(lens, c) ==
  /\ prev # None
  /\ prev[1].scfg = c
  /\ prev[1].input_ids = PaddedInputIds(lens)

\* The sampler selecting what it selected at the same step of the first call.
SameChoice(ch) ==
  (prev # None /\ Len(choices) < Len(prev[1].choices)) =>
     ch = prev[1].choices[Len(choices) + 1]

\* The pair is run with the default penalties: the loop never reads them.
PairRequests ==
  { r \in Requests :
      r[2].presence_penalty = 0 /\ r[2].repetition_penalty = 10 }

NextPair ==
  \/ pc = "idle" /\ \E bs \in 1 .. MaxBatch, mil \in 1 .. MaxLen,
                          mnt \in 0 .. MaxNew :
                       SameSetup(bs, mil, mnt) /\ Setup(bs, mil, mnt)
  \/ prev = None /\ \E r \in PairRequests : Decode(r[1], r[2])
  \/ mode = "eager" /\ Return
  \/ pc = "idle" /\ \E r \in PairRequests :
                       SameRequest(r[1], r[2]) /\ SteamDecode(r[1], r[2])
  \/ Resume
  \/ Iterate(TRUE)
  \/ \E ch \in StepChoices : SameChoice(ch) /\ StepPost(ch)
  \/ AfterLoop

SpecPair == Init /\ [][NextPair]_vars

(***************************************************************************)
(* Specification: the worked example, one 3-token prompt and a budget of 5  *)
(***************************************************************************)
ExampleConfig == Config(1, 0, 10, Some(EndId), Some(EndId))

NextExample ==
  \/ Setup(1, 3, 5)
  \/ Decode([b \in Range(1) |-> 3], ExampleConfig)
  \/ SteamDecode([b \in Range(1) |-> 3], ExampleConfig)
  \/ Resume
  \/ \E ok \in BOOLEAN : Iterate(ok)
  \/ \E ch \in StepChoices : StepPost(ch)
  \/ AfterLoop

SpecExample == Init /\ [][NextExample]_vars

(***************************************************************************)
(* Specification: the callers that prepare a batch of prompts, chat and    *)
(* the command line with an input file                                     *)
(***************************************************************************)
\* decode(input_ids, input_lengths, sampling_config) on the input a caller
\* has prepared.
DecodeWith(ids, lens, c) ==
  /\ pc = "idle"
  /\ mode' = "eager"
  /\ input_lengths' = lens
  /\ input_ids' = ids
  /\ scfg' = c
  /\ entry' = Session
  /\ Enter(lens, ids, c)
  /\ out' = <<>>
  /\ UNCHANGED <<setupVars, engineVars, resume, prev>>

\* chat: prepare_for_chat, then decode with the caller's sampling_config.
Chat(prompts, c) == DecodeWith(PrepareForChat(prompts), LensOf(prompts), c)

\* generate (command line) with an input file: get_model, the input tensor,
\* then decode with the SamplingConfig of get_model.
GenerateFile(prompts, gen, remove_input_padding) ==
  DecodeWith(FileInputIds(prompts, GetModel(gen).eos_token_id,
                          remove_input_padding),
             LensOf(prompts), GetModel(gen).sampling_config)

PromptBatches == { PromptTokens(lens) : lens \in LengthBatches }

\* The sampling configurations a caller of chat may pass.
ChatConfigs == { Config(1, 0, 10, Some(EndId), Some(p)) : p \in {EndId, PadId} }

NextPad ==
  \/ \E bs \in 1 .. MaxBatch, mil \in 1 .. MaxLen, mnt \in 0 .. MaxNew :
       Setup(bs, mil, mnt)
  \/ \E prompts \in PromptBatches, c \in ChatConfigs : Chat(prompts, c)
  \/ \E prompts \in PromptBatches, gen \in GenConfigs, rip \in BOOLEAN :
       GenerateFile(prompts, gen, rip)
  \/ \E ok \in BOOLEAN : Iterate(ok)
  \/ \E ch \in StepChoices : StepPost(ch)
  \/ AfterLoop

SpecPad == Init /\ [][NextPad]_vars

(***************************************************************************)
(* Specification: one run of the command line, generate(): the input is    *)
(* read, then the session is set up, then decode is called                 *)
(***************************************************************************)
\* The extensions of --input_file offered to a run, "" for no input file.
Extensions == {"", ".csv", ".npy", ".txt"}

\* input_file.endswith('.csv') / endswith('.npy')
Supported(ext) == ext \in {".csv", ".npy"}

\* The exit status of the interpreter by the exception that ends the run:
\* `raise SystemExit` carries no code, which is status 0.
ExitStatus(e) == IF e \in {"", "SystemExit"} THEN 0 ELSE 1

\* generate() up to the input tensors: the model is loaded, then the input is
\* encoded from --input_text (one prompt) or read from the file; a file of
\* another extension prints a message and raises SystemExit.
ReadInput(ext, prompts, gen, remove_input_padding) ==
  /\ pc = "idle" /\ input_ids = None /\ batch_size = None
  /\ ext = "" => BatchOf(prompts) = 1
  /\ IF ext = "" \/ Supported(ext)
     THEN /\ input_ids' =
                IF ext = "" THEN prompts
                ELSE FileInputIds(prompts, GetModel(gen).eos_token_id,
                                  remove_input_padding)
          /\ input_lengths' = LensOf(prompts)
          /\ scfg' = GetModel(gen).sampling_config
          /\ log' = Append(log, "load_engine")
          /\ UNCHANGED <<pc, err>>
     ELSE /\ pc' = "exit"
          /\ err' = "SystemExit"
          /\ log' = log \o <<"load_engine", "print_not_supported">>
          /\ UNCHANGED <<input_ids, input_lengths, scfg>>
  /\ UNCHANGED <<setupVars, engineVars, decoderVars, kv_cache_manager, mode,
                 step, sequence_lengths, resume, out, choices, loopVars, fresh,
                 entry, prev>>

\* decoder.setup(batch_size, max_input_length, max_new_tokens) of generate().
GenerateSetup(mnt) ==
  /\ input_ids # None /\ batch_size = None
  /\ Setup(BatchOf(input_lengths), MaxOf(input_lengths), mnt)

\* decoder.decode(input_ids, input_lengths, sampling_config) of generate().
GenerateDecode ==
  /\ batch_size # None /\ mode = "none"
  /\ DecodeWith(input_ids, input_lengths, scfg)

NextGenerate ==
  \/ \E ext \in Extensions, prompts \in PromptBatches, gen \in GenConfigs,
        rip \in BOOLEAN : ReadInput(ext, prompts, gen, rip)
  \/ \E mnt \in 0 .. MaxNew : GenerateSetup(mnt)
  \/ GenerateDecode
  \/ \E ok \in BOOLEAN : Iterate(ok)
  \/ \E ch \in StepChoices : StepPost(ch)
  \/ AfterLoop

SpecGenerate == Init /\ [][NextGenerate]_vars

(***************************************************************************)
(* Specification: one prompt decoded without beam search, the sampler       *)
(* selecting from the logits of each step under top_k, top_p, temperature   *)
(***************************************************************************)
SamplerConfigs ==
  { [Config(1, 0, 10, Some(EndId), Some(EndId)) EXCEPT
        !.top_k = k, !.top_p = p, !.temperature = t] :
      k \in 0 .. Cardinality(Vocab), p \in {0, 5}, t \in {10, 20} }

\* One prompt of one token: the selection of a step depends on the logits of
\* the step and on the sampling parameters, not on the prompt.
SamplerRequests ==
  { r \in LengthBatches \X SamplerConfigs :
      BatchOf(r[1]) = 1 /\ MaxOf(r[1]) = 1 }

\* What the sampler selects at the current step, by the logits of the step and
\* the random draw: a slot that is finished, or a step without logits, selects
\* nothing.
SamplerSelections ==
  IF pc = "post"
  THEN { [b \in Range(LocalBatch) |-> [k \in Range(1) |->
            IF logits /\ ~finished[b][k]
            THEN [tok |-> SamplerSelect(lg[b], top_k[1][b], top_p[1][b],
                                        temperature[1][b], rnd[b]),
                  parent |-> 0, logits |-> lg[b], sampled |-> TRUE]
            ELSE [tok |-> Tok, parent |-> 0, logits |-> lg[b],
                  sampled |-> FALSE]]] :
           lg \in [Range(LocalBatch) -> Logits],
           rnd \in [Range(LocalBatch) -> Rands] }
  ELSE {}

NextSampler ==
  \/ \E mnt \in 0 .. MaxNew : Setup(1, 1, mnt)
  \/ \E r \in SamplerRequests : Decode(r[1], r[2])
  \/ \E ok \in BOOLEAN : Iterate(ok)
  \/ \E ch \in SamplerSelections : StepPost(ch)
  \/ AfterLoop

SpecSampler == Init /\ [][NextSampler]_vars

(***************************************************************************)
(* Specification: calls that ask, or do not ask, for log-probabilities     *)
(***************************************************************************)
\* The sampling configurations by the two output flags, for greedy search and
\* for beam search.
LogProbConfigs ==
  { [Config(nb, 0, 10, Some(EndId), Some(EndId)) EXCEPT
        !.output_cum_log_probs = cum, !.output_log_probs = lp] :
      nb \in {1, 2}, cum \in BOOLEAN, lp \in BOOLEAN }

\* One prompt per call: the buffers are allocated per call, by the flags and
\* the beam count, whatever the batch.
LogProbRequests ==
  { r \in LengthBatches \X LogProbConfigs :
      /\ BatchOf(r[1]) = 1
      /\ r[2].num_beams <= MaxSlots }

NextLogProbs ==
  \/ \E mil \in 1 .. MaxLen, mnt \in 0 .. MaxNew : Setup(1, mil, mnt)
  \/ \E r \in LogProbRequests : Decode(r[1], r[2])
  \/ \E ok \in BOOLEAN : Iterate(ok)
  \/ \E ch \in StepChoices : StepPost(ch)
  \/ AfterLoop

SpecLogProbs == Init /\ [][NextLogProbs]_vars

(***************************************************************************)
(* Specification: the session methods generate, chat and chat_stream, from *)
(* the caller's arguments to the result                                    *)
(***************************************************************************)
\* min(a, b) of Python.
Min(a, b) == IF a < b THEN a ELSE b

\* The history argument of prepare_for_chat, by its shape: None; one
\* conversation (a list of n question/answer pairs, [] for n = 0); or a list
\* of n conversations, the first holding `first` pairs, the pairs being Python
\* tuples or Python lists.
Histories ==
  { <<"none", 0, 0, FALSE>> }
  \cup { <<"flat", n, 0, FALSE>> : n \in 0 .. 1 }
  \cup { <<"nested", n, f, t>> : n \in 1 .. MaxBatch, f \in 0 .. 1, t \in BOOLEAN }

\* len(history_list): `[history]` when history[0][0] is non-empty and not a
\* list (one conversation, but also a list of conversations whose first pair
\* is a tuple), `[[]]` for no history, the argument itself otherwise.
HistoryListLen(h) ==
  IF h[1] = "nested" /\ ~(h[3] > 0 /\ h[4]) THEN h[2] ELSE 1

\* for line, history in zip(batch_text, history_list): as many prompts as the
\* shorter of the two lists. A text is held as the tokens make_context
\* returns for it.
Zipped(texts, h) ==
  [b \in Range(Min(BatchOf(texts), HistoryListLen(h))) |-> texts[b]]

\* The sampling configuration of the callers: greedy search, ids set.
CallerConfig == Config(1, 0, 10, Some(EndId), Some(EndId))

\* The input tensors of a call: prepare_for_chat for chat and chat_stream,
\* the caller's own padded rows for generate.
CallerInput ==
  /\ pc = "idle" /\ request # None /\ input_ids = None
  /\ LET rows == IF request[1] = "generate" THEN request[2]
                 ELSE Zipped(request[2], request[3])
     IN /\ input_ids' = PrepareForChat(rows)
        /\ input_lengths' = LensOf(rows)
  /\ scfg' = CallerConfig
  /\ UNCHANGED <<setupVars, engineVars, decoderVars, kv_cache_manager, mode,
                 callVars, loopVars, fresh, entry, prev>>

\* The requested budget passed on as it is.
StepBudgetUnclamped(mnt, mil) ==
  IF mnt = None THEN global_max_output_length - mil ELSE mnt[1]

\* The step budget the three methods pass to setup.
StepBudget(mnt, mil) ==
  IF mnt = None THEN global_max_output_length - mil
  ELSE Min(mnt[1], global_max_output_length - mil)

\* self.setup(batch_size, max_input_length, max_new_tokens) of the methods.
CallerSetup ==
  /\ request # None /\ input_ids # None /\ batch_size = None
  /\ Setup(BatchOf(input_lengths), MaxOf(input_lengths),
           StepBudget(request[4], MaxOf(input_lengths)))

\* self.decode(input_ids, input_lengths, sampling_config) of generate, chat.
CallerDecode ==
  /\ request # None /\ batch_size # None /\ mode = "none"
  /\ request[1] \in {"generate", "chat"}
  /\ DecodeWith(input_ids, input_lengths, scfg)

\* self.steam_decode(input_ids, input_lengths, sampling_config) of
\* chat_stream.
CallerSteamDecode ==
  /\ request # None /\ batch_size # None /\ mode = "none"
  /\ request[1] = "chat_stream"
  /\ pc = "idle"
  /\ mode' = "stream"
  /\ entry' = Session
  /\ pc' = "created"
  /\ resume' = "entry"
  /\ out' = <<>>
  /\ UNCHANGED <<setupVars, engineVars, decoderVars, kv_cache_manager, step,
                 input_ids, input_lengths, scfg, sequence_lengths, err, log,
                 choices, loopVars, fresh, prev>>

\* output_ids[i, 0, input_lengths[i] : input_lengths[i] + end_step] of chat
\* and chat_stream: the positions of the slice of row i, and its tokens.
TextSlicePositions(i, n) ==
  { t \in Range(max_seq_length[1]) :
      input_lengths[i] <= t /\ t < input_lengths[i] + n }
TextSlice(pair, i) ==
  [j \in Range(Cardinality(TextSlicePositions(i, pair.n))) |->
     pair.ids[i][0][input_lengths[i] + j]]

\* The arguments of a call: <<method, texts, history, max_new_tokens>>, the
\* texts of a batch with a history per text (or none for a single text).
CallerRequests ==
  { <<m, texts, h, mnt>> :
      m \in {"generate", "chat", "chat_stream"},
      texts \in PromptBatches,
      h \in Histories,
      mnt \in {None} \cup { Some(n) : n \in 0 .. MaxNew } }

ChatRequests ==
  { r \in CallerRequests :
      /\ BatchOf(r[2]) * CallerConfig.num_beams <= MaxSlots
      /\ r[1] = "generate" => (r[3][1] = "none" /\ r[4] # None)
      /\ r[1] # "generate" =>
            \/ r[3][1] = "none" /\ BatchOf(r[2]) = 1
            \/ r[3] = <<"nested", BatchOf(r[2]), 0, FALSE>> }

\* The constructor's global_max_output_length.
GlobalLimits == MaxLen .. (MaxLen + MaxNew - 1)

InitChat ==
  /\ InitSession
  /\ global_max_output_length \in GlobalLimits
  /\ request \in ChatRequests

NextChat ==
  \/ CallerInput
  \/ CallerSetup
  \/ CallerDecode
  \/ CallerSteamDecode
  \/ Resume
  \/ \E ok \in BOOLEAN : Iterate(ok)
  \/ \E ch \in StepChoices : StepPost(ch)
  \/ AfterLoop

SpecChat == InitChat /\ [][NextChat]_vars

(***************************************************************************)
(* Specification: prepare_for_chat alone, over the shapes of its history   *)
(* argument                                                                *)
(***************************************************************************)
PrepareRequests ==
  { r \in CallerRequests : r[1] = "chat" /\ r[4] = None }

InitPrepare ==
  /\ InitSession
  /\ global_max_output_length = MaxLen + MaxNew
  /\ request \in PrepareRequests

NextPrepare == CallerInput

SpecPrepare == InitPrepare /\ [][NextPrepare]_vars

(***************************************************************************)
(* Properties                                                              *)
(***************************************************************************)
EngineFailed == "RuntimeError: Executing TRT engine failed!"

\* Engine invocations of the running call.
EngineRuns == Count(log, "run") + Count(log, "run_failed")

\* The body of the call has started.
Started == pc \notin {"idle", "created"}

\* The step budget fixed by setup, 0 before any setup.
Budget == IF max_new_tokens = None THEN 0 ELSE max_new_tokens[1]

\* C1: a decode call, eager or streaming, never performs more engine
\* invocations than the step budget max_new_tokens, and its loop index never
\* passes the budget.
C1_EngineRunsWithinBudget ==
  /\ EngineRuns <= Budget
  /\ step <= Budget
  /\ (pc \in {"post", "yielded"} => step < Budget)

C1_BudgetUsedUp ==
  /\ pc = "done" /\ mode = "stream"
  /\ Budget = MaxNew
  /\ EngineRuns = Budget
  /\ Len(out) = Budget

\* The batch of the call differs from the shapes fixed by the last setup.
Mismatch ==
  /\ batch_size # None
  /\ input_lengths # None
  /\ \/ BatchOf(input_ids) # batch_size[1]
     \/ MaxOf(input_lengths) # max_input_length[1]

\* C2: a call whose batch size or maximum input length differs from the last
\* setup fails with an assertion error as soon as its body runs, with no
\* session field, buffer or cache-manager state changed and no engine run.
C2_MismatchFailsBeforeAnyEffect ==
  (Mismatch /\ Started) =>
     /\ pc = "error"
     /\ err \in {"AssertionError: batch size", "AssertionError: input length"}
     /\ Session = entry
     /\ log = <<>>
     /\ out = <<>>

C2_MismatchRejected ==
  /\ Mismatch /\ pc = "error" /\ mode = "stream"
  /\ BatchOf(input_ids) = batch_size[1]
  /\ err = "AssertionError: input length"

\* C3 as stated: after an engine failure the caller has received no result at
\* all, in either mode.
C3_NoResultAfterEngineFailure ==
  Count(log, "run_failed") > 0 => out = <<>>

\* C3 amended: an engine failure at step n aborts the call with an error; the
\* failed invocation is the last thing the call does (no sampler step for it,
\* no second invocation), eager decode returns nothing and steam_decode yields
\* nothing for step n or later: what it has yielded are the n pairs of the
\* steps before n.
C3_EngineFailureAborts ==
  Count(log, "run_failed") > 0 =>
     /\ pc = "error" /\ err = EngineFailed
     /\ Count(log, "run_failed") = 1
     /\ log[Len(log)] = "run_failed"
     /\ Count(log, "run") = step
     /\ Count(log, "sampler") <= step
     /\ (mode = "eager" => out = <<>>)
     /\ (mode = "stream" => /\ Len(out) = step
                            /\ \A i \in 1 .. Len(out) : out[i].n = i)

C3_StreamFailsAfterYield ==
  /\ pc = "error" /\ err = EngineFailed /\ mode = "stream"
  /\ step = 2 /\ Len(out) = 2

\* The pair the caller holds is the final one of the call.
FinalDelivered ==
  /\ out # <<>>
  /\ \/ pc = "done"
     \/ pc = "yielded" /\ (resume = "after" \/ step = Budget - 1)

\* C5: with paging, the final result is never in the caller's hands while
\* sequences of the batch still hold blocks, in either mode and on either way
\* to Finished.
C5_ReleasedBeforeFinalResult ==
  (paged_kv_cache /\ logits /\ FinalDelivered) => kv_cache_manager = <<>>

\* The sampler has reported all-finished in the running call.
AllDone == finished # None /\ logits /\ AllFinished(finished)

\* C6: once every sequence has finished, at loop index s, the loop runs no
\* further iteration: s generation steps were executed, fewer than the budget
\* (and fewer engine invocations than the budget when s is not the last
\* index), the step count s + 1 is reported and the block table is empty.
C6_AllFinishedStopsAndReleases ==
  (Started /\ AllDone) =>
     /\ pc \in (IF mode = "eager" THEN {"done"} ELSE {"yielded", "after", "done"})
     /\ EngineRuns = step + 1
     /\ EngineRuns - 1 < Budget
     /\ (step < Budget - 1 => EngineRuns < Budget)
     /\ out[Len(out)].n = step + 1
     /\ kv_cache_manager = <<>>
     /\ KvBlocks(kv_cache_manager) = 0

C6_StoppedEarlyPaged ==
  /\ pc = "done" /\ mode = "eager" /\ paged_kv_cache /\ AllDone
  /\ LocalBatch = 2 /\ Budget = 3 /\ step = 1
  /\ sequence_lengths[0][0] # sequence_lengths[1][0]

\* Both penalties differ from their defaults (presence 0.0, repetition 1.0).
BothPenaltiesSet(c) == c.presence_penalty # 0 /\ c.repetition_penalty # 10

\* C8: a call whose configuration sets both penalties to non-default values
\* never reaches an engine invocation and hands no result to the caller.
C8_BothPenaltiesRejected ==
  (Started /\ BothPenaltiesSet(scfg)) => (EngineRuns = 0 /\ out = <<>>)

ContractErrors ==
  {"AssertionError: penalties", "AssertionError: end_id",
   "AssertionError: pad_id", "RuntimeError: call setup first"}

\* C9: when decode raises a contract violation, the session is as it was when
\* the call was made: policy fields, sampler setup, buffers and cache manager.
C9_ViolationLeavesSessionUntouched ==
  (pc = "error" /\ err \in ContractErrors) => Session = entry

\* C10: before any setup a call is rejected with the 'call setup first' error,
\* having set up no sampler, run no engine and called no cache manager.
C10_CallBeforeSetupRejected ==
  (Started /\ ~buffer_allocated) =>
     /\ pc = "error" /\ err = "RuntimeError: call setup first"
     /\ Session = entry
     /\ log = <<>>

\* The stream of the second call is exhausted, the first call was decode.
PairDone == pc = "done" /\ mode = "stream" /\ prev # None

\* C4 as stated: the last pair of the stream is the pair decode returned.
C4_LastPairEqualsEagerPair ==
  PairDone => (out # <<>> /\ out[Len(out)] = prev[1].out[1])

\* C4 amended: with a step budget of at least 1 the last pair of the stream is
\* the pair decode returned, whether the sampler reported all-finished or the
\* budget ran out; with a budget of 0 decode returns a pair with step count 0
\* and the stream yields nothing.
C4_LastPairEqualsEagerPairFromBudgetOne ==
  PairDone =>
     /\ Len(prev[1].out) = 1
     /\ Budget >= 1 => (out # <<>> /\ out[Len(out)] = prev[1].out[1])
     /\ Budget = 0 => (out = <<>> /\ prev[1].out[1].n = 0)

C4_BothWaysCompared ==
  /\ PairDone /\ paged_kv_cache /\ logits
  /\ LocalBatch = 2 /\ Budget = 3
  /\ Len(out) = 3 /\ out[3] = prev[1].out[1]
  /\ ~AllFinished(finished)
  /\ \E b \in DOMAIN finished : finished[b][0]

\* The end id was selected at loop index s of a finished eager call of the
\* example, and not before.
EndEmittedAt(s) ==
  /\ pc = "done" /\ mode = "eager" /\ logits
  /\ Len(choices) = s + 1
  /\ choices[s + 1][0][0].tok = EndId

\* C7 as stated: the end id emitted at step 2 gives a step count of 2 and an
\* output of promptLength + 2 tokens, with no cache block left.
C7_StepCountIsEndStep ==
  EndEmittedAt(2) =>
     /\ out[1].n = 2
     /\ DOMAIN GenerateOutputs(out[1], 3)[0] = Range(3 + 2)
     /\ KvBlocks(kv_cache_manager) = 0

\* C7 amended: the end id emitted at step 2 (the third engine invocation)
\* gives a step count of 3 and an output of promptLength + 3 tokens, with no
\* cache block left; in general the step count is one more than the step at
\* which the end id was emitted.
C7_StepCountIsEndStepPlusOne ==
  /\ EndEmittedAt(2) =>
        /\ out[1].n = 3
        /\ DOMAIN GenerateOutputs(out[1], 3)[0] = Range(3 + 3)
        /\ GenerateOutputs(out[1], 3)[0][3 + 2] = EndId
        /\ KvBlocks(kv_cache_manager) = 0
  /\ \A s \in Range(5) : EndEmittedAt(s) => out[1].n = s + 1

C7_ExampleFinished ==
  /\ EndEmittedAt(2) /\ paged_kv_cache
  /\ batch_size = Some(1) /\ max_new_tokens = Some(5)
  /\ input_lengths = [b \in Range(1) |-> 3]
  /\ EngineRuns = 3

\* C11: Finished is terminal. The loop of decode or steam_decode is entered
\* only on buffers fresh from setup: after a call has used them, a further
\* call without a new setup does not reach the loop.
C11_LoopEnteredOnFreshBuffersOnly ==
  [][(pc \in {"idle", "created"} /\ pc' = "top") => fresh]_vars

\* The step counts of the pairs a stream has produced are 1, 2, 3, ...
CountsIncrease == \A i \in 1 .. Len(out) : out[i].n = i

\* C12 as stated: an exhausted stream has produced one pair per step it
\* executed, the last of them the final pair at Finished, with increasing
\* step counts.
C12_StreamEndsWithFinalPair ==
  (mode = "stream" /\ pc = "done") =>
     (out # <<>> /\ CountsIncrease /\ Len(out) = EngineRuns)

\* C12 amended: steam_decode yields one pair per executed step, with the step
\* counts 1, 2, 3, ... ; with a step budget of at least 1 the last pair is the
\* final one and the stream is exhausted after it (a further next() produces
\* nothing); with a budget of 0 the stream produces no pair at all.
C12_OnePairPerExecutedStep ==
  mode = "stream" =>
     /\ CountsIncrease
     /\ Len(out) <= EngineRuns
     /\ EngineRuns <= Len(out) + 1
     /\ pc = "done" => /\ Len(out) = EngineRuns
                       /\ Budget >= 1 => out # <<>>
                       /\ Budget = 0 => out = <<>>

C12_StreamExhausted ==
  /\ mode = "stream" /\ pc = "done" /\ err = "StopIteration"
  /\ Budget = 3 /\ Len(out) = 2 /\ AllDone
  /\ LocalBatch = 2

\* The body of the call is between its entry to the loop and its end.
InLoop == pc \in {"top", "post", "yielded", "after"}

\* C13: within one call the finished flag of every (batch, beam) slot is
\* false when the loop is entered and, once true, stays true at every later
\* step: no step of the loop clears a flag.
C13_FinishedFlagsMonotonic ==
  /\ []((pc = "top" /\ step = 0) =>
          \A b \in DOMAIN finished : \A k \in DOMAIN finished[b] : ~finished[b][k])
  /\ [][InLoop =>
          \A b \in DOMAIN finished : \A k \in DOMAIN finished[b] :
             finished[b][k] => finished'[b][k]]_vars

C13_FlagKeptOverLaterStep ==
  /\ InLoop /\ logits /\ step = 2 /\ Len(choices) = 3
  /\ LocalBatch = 2
  /\ choices[1][0][0].tok = EndId
  /\ finished[0][0] /\ ~finished[1][0]

\* The call is in its loop and has not released the batch yet.
NotReleased ==
  \/ pc \in {"top", "post"}
  \/ pc = "yielded" /\ resume = "top"

\* C14 as stated: the advance of the cache manager follows the finished
\* flags, so after the advance of a step no sequence that the sampler has
\* marked finished is left in the block table.
C14_FinishedSequencesReleasedAtAdvance ==
  (paged_kv_cache /\ logits /\ pc = "post" /\ step >= 1) =>
     \A i \in 1 .. Len(kv_cache_manager) :
        \E k \in Range(scfg.num_beams) :
           ~finished[kv_cache_manager[i].batch_idx][k]

\* C14 amended: at each step but the last of the budget the cache manager is
\* advanced by one token for every sequence of the batch, finished or not
\* (the done flags passed are all false); no sequence is released before
\* Finished, where all are released together.
C14_AdvanceCoversEverySequence ==
  (paged_kv_cache /\ NotReleased) =>
     /\ Len(kv_cache_manager) = LocalBatch
     /\ \A i \in 1 .. Len(kv_cache_manager) :
           /\ kv_cache_manager[i].batch_idx = i - 1
           /\ kv_cache_manager[i].tokens =
                 LocalMaxInputLength + Count(log, "kv_step_false")
     /\ Count(log, "kv_step_true") = 0
     /\ (Budget >= 1 => Count(log, "kv_step_false") <= Budget - 1)
     /\ (pc = "post" => Count(log, "kv_step_false") = step)

C14_FinishedSequenceAdvanced ==
  /\ paged_kv_cache /\ logits /\ pc = "post" /\ step = 2
  /\ LocalBatch = 2
  /\ finished[0][0] /\ ~finished[1][0]
  /\ choices[1][0][0].tok = EndId
  /\ kv_cache_manager[1].tokens = LocalMaxInputLength + 2

\* The cache-manager operations a call can perform.
CacheManagerCalls ==
  {"add_sequence", "get_pointer_arrays", "kv_step_false", "kv_step_true"}

\* C15: with paging disabled a call performs no cache-manager operation, the
\* cache manager is as it was at call entry, and the block pointer table
\* handed to the input builders, at every step, is empty.
C15_NoCacheManagerWithoutPaging ==
  (~paged_kv_cache /\ Started) =>
     /\ \A i \in 1 .. Len(log) : log[i] \notin CacheManagerCalls
     /\ kv_cache_manager = entry.kv_cache_manager
     /\ kv_cache_block_pointers = <<>>
     /\ \A c \in DOMAIN contexts :
           contexts[c] # None => contexts[c][1].kv_cache_block_pointers = <<>>

C15_DenseCallFinished ==
  /\ ~paged_kv_cache /\ logits /\ pc = "done" /\ mode = "stream"
  /\ EngineRuns = MaxNew /\ LocalBatch = 2
  /\ contexts[0] # None /\ contexts[1] # None
  /\ contexts[1][1].step = 2

\* The engine invocation of the current step is the last thing that happened.
EngineJustRan == pc = "post" \/ (pc = "error" /\ err = EngineFailed)

\* The rest of the current iteration, after the engine invocation, is over.
IterationOver ==
  /\ context # None
  /\ pc \in {"top", "yielded", "after", "done"}

\* C16: the engine runs step n on the context of parity n, which holds the
\* inputs bound for step n and nothing newer; the inputs of step n + 1 are
\* bound, during step n, to the other context, which is the one step n + 1
\* runs on.
C16_ContextsAlternate ==
  /\ EngineJustRan =>
        /\ context = Some(1 - (step % 2))
        /\ contexts[context[1]] # None
        /\ contexts[context[1]][1].step = step
  /\ IterationOver =>
        /\ contexts[context[1]] # None
        /\ LET ran == contexts[context[1]][1].step
           IN ran # Budget - 1 =>
                 /\ contexts[1 - context[1]] # None
                 /\ contexts[1 - context[1]][1].step = ran + 1

C16_ThirdStepRan ==
  /\ EngineJustRan /\ pc = "post" /\ step = 2 /\ mode = "eager"
  /\ context = Some(1)
  /\ contexts[0][1].step = 1 /\ contexts[1][1].step = 2

\* C17: at every step the sampler reads one cache-indirection buffer and
\* writes the other; the buffer bound as the source of the next step is the
\* one written in the current step, and it is the one the sampler of the next
\* step reads; step 0 reads buffer 0.
C17_CacheIndirectionPingPong ==
  /\ EngineJustRan =>
        /\ this_src_cache_indirection # None
        /\ this_tgt_cache_indirection # None
        /\ this_src_cache_indirection # this_tgt_cache_indirection
        /\ next_src_cache_indirection = this_tgt_cache_indirection
        /\ contexts[context[1]][1].cache_indirection =
              this_src_cache_indirection[1]
        /\ (step = 0 => this_src_cache_indirection = Some(0))
  /\ IterationOver =>
        (contexts[context[1]][1].step # Budget - 1 =>
           contexts[1 - context[1]][1].cache_indirection =
              this_tgt_cache_indirection[1])

C17_SecondStepReadsBufferOne ==
  /\ pc = "post" /\ step = 1 /\ mode = "stream" /\ logits
  /\ this_src_cache_indirection = Some(1)
  /\ this_tgt_cache_indirection = Some(0)
  /\ contexts[0][1].cache_indirection = 1
  /\ contexts[1][1].cache_indirection = 0

\* Occurrences of e among the first n entries of the call history.
CountUpTo(n, e) == Cardinality({i \in 1 .. n : log[i] = e})

\* C18: with paging, the inputs of a generation step are built after the
\* cache manager has been extended for that step (every building of
\* next-step inputs is preceded by the advance made for that step), and the
\* block pointer table the engine runs a step with is the table of the cache
\* manager as extended for that step.
C18_InputsBuiltAfterCacheExtended ==
  paged_kv_cache =>
     /\ \A i \in 1 .. Len(log) :
           log[i] = "next_inputs" =>
              CountUpTo(i, "kv_step_false") >= CountUpTo(i, "next_inputs")
     /\ (pc = "post" =>
           contexts[context[1]][1].kv_cache_block_pointers =
              KvPointerArrays(kv_cache_manager))

\* C19 as stated: every call that reaches Finished has run the context step,
\* with the context-phase inputs built exactly once.
C19_ContextStepRunsOnce ==
  (pc = "done" /\ Started) => Count(log, "context_inputs") = 1

\* C19 amended: the context-phase inputs are built at most once per call, for
\* the first engine invocation only (step 0), and not at all when the step
\* budget is 0; the steps run in increasing order, the k-th invocation being
\* step k - 1; a call that reaches Finished has stopped after step s when the
\* sampler reported all-finished at s (after step 0: no generation step), and
\* has run all steps 0 .. max_new_tokens - 1 otherwise.
C19_ContextStepFirstAndOnlyWithBudget ==
  /\ Count(log, "context_inputs") <= 1
  /\ (Count(log, "context_inputs") = 1 <=> EngineRuns >= 1)
  /\ \A i \in 1 .. Len(log) :
        log[i] \in {"run", "run_failed"} =>
           /\ CountUpTo(i, "context_inputs") = 1
           /\ (log[i - 1] = "context_inputs" <=>
                 CountUpTo(i, "run") + CountUpTo(i, "run_failed") = 1)
  /\ (pc = "top" /\ LoopContinues(step) => EngineRuns = step)
  /\ (pc = "post" => EngineRuns = step + 1)
  /\ (pc = "done" =>
        IF Budget = 0 THEN EngineRuns = 0
        ELSE IF AllDone THEN EngineRuns = step + 1
        ELSE EngineRuns = Budget)

C19_FinishedAtContextStep ==
  /\ pc = "done" /\ AllDone
  /\ Budget = MaxNew
  /\ step = 0 /\ EngineRuns = 1
  /\ Count(log, "context_inputs") = 1

\* C20: whatever the caller (chat, the command line with a file), once the
\* decoder is set up the prompt rows of the batch hold each prompt's own
\* tokens left-aligned and, from the prompt's length up to the longest prompt
\* of the batch, the pad id of the SamplingConfig.
C20_PromptsPaddedWithConfiguredPadId ==
  pc \in {"top", "post", "after", "done"} =>
     \A b \in Range(LocalBatch) : \A j \in Range(LocalMaxInputLength) :
        output_ids[j][b][0] =
           IF j < input_lengths[b] THEN PromptTokens(input_lengths)[b][j]
           ELSE scfg.pad_id[1]

\* __setup_decoder has run to its end in the current call.
DecoderSetUp == pc \in {"top", "post", "yielded", "after", "done"}

\* C21 as stated: after decoder setup each of the two log-probability buffers
\* is present only if the SamplingConfig asked for it.
C21_LogProbBuffersOnlyOnRequest ==
  DecoderSetUp =>
     /\ (cum_log_probs # None <=> scfg.output_cum_log_probs)
     /\ (log_probs # None <=> scfg.output_log_probs)

\* C21 amended: after decoder setup the cumulative buffer is present exactly
\* when the SamplingConfig asked for it or the call is a beam search (one
\* entry per batch element and beam), and the per-step buffer exactly when the
\* SamplingConfig asked for it (one entry per step of the budget, batch
\* element and beam).
C21_LogProbBuffersOnRequestOrBeamSearch ==
  DecoderSetUp =>
     /\ (cum_log_probs # None <=>
           (scfg.output_cum_log_probs \/ scfg.num_beams > 1))
     /\ (cum_log_probs # None =>
           /\ DOMAIN cum_log_probs[1] = Range(LocalBatch)
           /\ \A b \in Range(LocalBatch) :
                 DOMAIN cum_log_probs[1][b] = Range(scfg.num_beams))
     /\ (log_probs # None <=> scfg.output_log_probs)
     /\ (log_probs # None => DOMAIN log_probs[1] = Range(Budget))

C21_BeamSearchKeepsCumulativeBuffer ==
  /\ pc = "done"
  /\ scfg.num_beams > 1
  /\ ~scfg.output_cum_log_probs /\ scfg.output_log_probs
  /\ cum_log_probs # None /\ log_probs # None

\* C22: a run of the command line given an input file that is neither .csv
\* nor .npy has been stopped before any setup, decode or engine invocation,
\* and has ended as an error (a non-zero exit status).
C22_UnsupportedInputFileRejectedAsError ==
  pc = "exit" =>
     /\ batch_size = None /\ buffer_allocated = FALSE
     /\ mode = "none" /\ input_ids = None
     /\ EngineRuns = 0
     /\ ExitStatus(err) # 0

PairInHand == out # <<>> /\ pc \in {"yielded", "done"}

\* C24: without beam search the parent ids are the identity at every step,
\* and the reconstructed result holds, for each sequence and each position
\* below its recorded length, the token of the raw output-id buffer at that
\* position: nothing reordered, nothing dropped, end ids inside the recorded
\* length included.
C24_ReconstructionIsRawSlice ==
  (PairInHand /\ scfg.num_beams = 1) =>
     /\ \A t \in DOMAIN parent_ids : \A b \in Range(LocalBatch) :
           parent_ids[t][b][0] = 0
     /\ \A b \in Range(LocalBatch) :
           /\ sequence_lengths[b][0] <= max_seq_length[1]
           /\ \A t \in Range(sequence_lengths[b][0]) :
                 out[Len(out)].ids[b][0][t] = output_ids[t][b][0]

C24_EndIdInsideRecordedLength ==
  /\ PairInHand /\ pc = "done" /\ scfg.num_beams = 1
  /\ LocalBatch = 2
  /\ input_lengths[1] < LocalMaxInputLength
  /\ sequence_lengths[1][0] = LocalMaxInputLength + 2
  /\ output_ids[input_lengths[1]][1][0] = EndId
  /\ out[Len(out)].ids[1][0][input_lengths[1]] = EndId
  /\ out[Len(out)].ids[1][0][LocalMaxInputLength] = Tok

\* C25 as stated: every beam-search call that reaches Finished has tiled the
\* per-sequence state exactly once.
C25_BeamSearchTilesOnce ==
  (pc = "done" /\ scfg.num_beams > 1) => Count(log, "tile") = 1

\* C25 amended: the per-sequence state is tiled at most once per call, only
\* in a beam search, immediately after the first successful engine invocation
\* (step 0) and before any next-step inputs are built and before any sampler
\* step; a beam search has tiled exactly when its context invocation has
\* succeeded (never with a step budget of 0), and from then on input_lengths
\* holds one entry per beam.
C25_TiledOnceAfterContextInvocation ==
  Started =>
     /\ Count(log, "tile") <= 1
     /\ (Count(log, "tile") = 1 <=>
           (scfg.num_beams > 1 /\ Count(log, "run") >= 1 /\ pc # "post")
           \/ (scfg.num_beams > 1 /\ Count(log, "run") >= 2))
     /\ \A i \in 1 .. Len(log) :
           log[i] = "tile" =>
              /\ log[i - 1] = "run"
              /\ CountUpTo(i, "run") = 1
              /\ CountUpTo(i, "next_inputs") = 0
              /\ CountUpTo(i, "sampler") = 0
     /\ (input_lengths # None /\ pc # "error" =>
           BatchOf(input_lengths) =
              IF Count(log, "tile") = 1 THEN LocalBatch * scfg.num_beams
              ELSE LocalBatch)

C25_BeamSearchTiledAndFinished ==
  /\ pc = "done" /\ scfg.num_beams > 1
  /\ Budget = MaxNew /\ EngineRuns = MaxNew
  /\ Count(log, "tile") = 1
  /\ BatchOf(input_lengths) = LocalBatch * scfg.num_beams

\* C26: the step count eager decode returns is the number of engine
\* invocations of the call, all of them successful, and with logits the number
\* of sampler steps: the loop index plus one when the sampler has reported
\* all-finished, max_new_tokens when it never has.
C26_EagerStepCountIsEngineRuns ==
  (mode = "eager" /\ pc = "done") =>
     /\ Len(out) = 1
     /\ out[1].n = EngineRuns
     /\ Count(log, "run_failed") = 0
     /\ (logits => out[1].n = Count(log, "sampler"))
     /\ (~logits => Count(log, "sampler") = 0)
     /\ (AllDone => out[1].n = step + 1)
     /\ (~AllDone => out[1].n = Budget /\ step = Budget)

C26_StoppedAtSecondStep ==
  /\ mode = "eager" /\ pc = "done" /\ AllDone
  /\ Budget = MaxNew /\ step = 1
  /\ out[1].n = 2 /\ EngineRuns = 2 /\ Count(log, "sampler") = 2

\* Engine invocations among the first n entries of the call history.
RunsUpTo(n) == CountUpTo(n, "run") + CountUpTo(n, "run_failed")

\* C27: with paging, once the loop is entered every batch element has been
\* added to the cache manager exactly once, all of them before the first
\* engine invocation; the invocation of loop index n comes after exactly n
\* advances; there is no advance at the last step and none once the sampler
\* has reported all-finished.
C27_AddedOnceAdvancedOncePerStep ==
  (paged_kv_cache /\ DecoderSetUp) =>
     /\ Count(log, "add_sequence") = LocalBatch
     /\ \A i \in 1 .. LocalBatch : log[i] = "add_sequence"
     /\ (pc = "top" /\ step = 0 =>
           /\ Len(kv_cache_manager) = LocalBatch
           /\ \A i \in 1 .. LocalBatch :
                 /\ kv_cache_manager[i].batch_idx = i - 1
                 /\ kv_cache_manager[i].tokens = LocalMaxInputLength)
     /\ \A i \in 1 .. Len(log) :
           log[i] \in {"run", "run_failed"} =>
              CountUpTo(i, "kv_step_false") = RunsUpTo(i) - 1
     /\ (Budget >= 1 => Count(log, "kv_step_false") <= Budget - 1)
     /\ (Budget = 0 => Count(log, "kv_step_false") = 0)
     /\ (AllDone => Count(log, "kv_step_false") = step)
     /\ (pc = "done" /\ ~AllDone /\ Budget >= 1 =>
           Count(log, "kv_step_false") = Budget - 1)

C27_ThirdInvocationAfterTwoAdvances ==
  /\ paged_kv_cache /\ pc = "post" /\ step = 2
  /\ LocalBatch = 2
  /\ Count(log, "add_sequence") = 2
  /\ Count(log, "kv_step_false") = 2
  /\ EngineRuns = 3

C29_EngineFailureKeepsSequences ==
  (paged_kv_cache /\ pc = "error" /\ err = EngineFailed) =>
     /\ Count(log, "kv_step_true") = 0
     /\ Count(log, "add_sequence") = LocalBatch
     /\ Len(kv_cache_manager) = LocalBatch
     /\ \A i \in 1 .. Len(kv_cache_manager) :
           /\ kv_cache_manager[i].tokens = LocalMaxInputLength + step
           /\ BlocksFor(kv_cache_manager[i].tokens) >= 1
     /\ KvBlocks(kv_cache_manager) = LocalBatch

C29_StreamFailedWithBlocksHeld ==
  /\ paged_kv_cache /\ pc = "error" /\ err = EngineFailed
  /\ mode = "stream" /\ step = 1 /\ LocalBatch = 2
  /\ Len(kv_cache_manager) = 2
  /\ KvBlocks(kv_cache_manager) = 2

\* C30: whenever the sampler is about to run, at loop index n, its write
\* position is max_input_length + n, inside the output-id and parent-id
\* buffers of max_seq_length = max_input_length + max_new_tokens entries, and
\* it has run once at each index below n; in every state of a call nothing is
\* written at or beyond the position of the next sampler step.
C30_WritePositionInsideBuffers ==
  DecoderSetUp =>
     /\ max_seq_length[1] = max_input_length[1] + max_new_tokens[1]
     /\ LocalMaxInputLength = max_input_length[1]
     /\ DOMAIN output_ids = Range(max_seq_length[1])
     /\ DOMAIN parent_ids = Range(max_seq_length[1])
     /\ (pc = "post" =>
           /\ WritePosition(step) = max_input_length[1] + step
           /\ WritePosition(step) >= max_input_length[1]
           /\ WritePosition(step) < max_seq_length[1]
           /\ WritePosition(step) \in DOMAIN output_ids
           /\ WritePosition(step) \in DOMAIN parent_ids
           /\ (logits => Count(log, "sampler") = step))
     /\ \A t \in DOMAIN output_ids :
           t >= max_input_length[1] + Count(log, "sampler") =>
              \A b \in DOMAIN output_ids[t] : \A k \in DOMAIN output_ids[t][b] :
                 output_ids[t][b][k] = 0

C30_LastPositionOfTheBuffer ==
  /\ pc = "post" /\ logits
  /\ Budget = MaxNew /\ step = MaxNew - 1
  /\ max_input_length[1] = MaxLen
  /\ WritePosition(step) = max_seq_length[1] - 1

\* C31: a configuration that sets one penalty alone (presence non-zero with
\* repetition at its default 1.0, or repetition not 1.0 with presence 0.0)
\* passes the penalty check of the decoder setup; the check rejects only the
\* configurations with both penalties non-default.
C31_SinglePenaltyPassesPenaltyCheck ==
  (Started /\ ~BothPenaltiesSet(scfg)) => err # "AssertionError: penalties"

\* C32: in generate, chat and chat_stream the step budget handed to setup is
\* the smaller of the requested max_new_tokens and the remainder
\* global_max_output_length - max_input_length, the whole remainder when no
\* budget is requested: max_input_length + max_new_tokens never exceeds
\* global_max_output_length and the budget never exceeds the request.
C32_BudgetClampedToGlobalLimit ==
  (request # None /\ batch_size # None) =>
     LET mil == MaxOf(input_lengths)
         rest == global_max_output_length - mil
     IN /\ batch_size[1] = BatchOf(input_lengths)
        /\ max_input_length[1] = mil
        /\ max_input_length[1] + max_new_tokens[1] <= global_max_output_length
        /\ request[4] # None => max_new_tokens[1] <= request[4][1]
        /\ \/ max_new_tokens[1] = rest
           \/ request[4] # None /\ max_new_tokens[1] = request[4][1]
        /\ request[4] = None => max_new_tokens[1] = rest

C32_RequestCutByGlobalLimit ==
  /\ request # None /\ request[1] = "chat_stream"
  /\ pc = "done" /\ mode = "stream"
  /\ request[4] # None
  /\ request[4][1] > global_max_output_length - MaxOf(input_lengths)
  /\ max_new_tokens[1] = global_max_output_length - MaxOf(input_lengths)
  /\ max_new_tokens[1] >= 1
  /\ Len(out) = max_new_tokens[1]

\* The positions the decode steps of a call wrote for every row, n steps in.
StepPositions(n) ==
  { t \in Range(max_seq_length[1]) :
      LocalMaxInputLength <= t /\ t < LocalMaxInputLength + n }

\* C33: for every row i of the batch, rows with a prompt shorter than the
\* longest one included, the slice chat and chat_stream decode into text is
\* made of exactly the end_step positions the decode steps wrote for the row:
\* no prompt or padding position, and no generated token left out.
C33_TextSliceIsTheGeneratedTokens ==
  (request # None /\ request[1] \in {"chat", "chat_stream"}) =>
     \A p \in 1 .. Len(out) : \A i \in DOMAIN input_lengths :
        /\ TextSlicePositions(i, out[p].n) = StepPositions(out[p].n)
        /\ TextSlice(out[p], i) =
              [j \in Range(out[p].n) |->
                 out[p].ids[i][0][LocalMaxInputLength + j]]

\* C34: prepare_for_chat returns one row of input ids and one input length
\* per input text, whatever the history argument (none and empty included):
\* for N texts, N rows, all as long as the longest prompt, and N lengths.
C34_OneRowPerText ==
  (request # None /\ request[1] # "generate" /\ input_ids # None) =>
     /\ BatchOf(input_ids) = BatchOf(request[2])
     /\ BatchOf(input_lengths) = BatchOf(request[2])
     /\ \A b \in DOMAIN input_ids :
           Cardinality(DOMAIN input_ids[b]) = MaxOf(LensOf(request[2]))

====
